---- MODULE Spec2Model ----
(***************************************************************************)
(* Model of web_server.py: the MCP JSON-RPC facade over a Pinecone client. *)
(* State: the lazily initialised module-level client handle, the last      *)
(* request and what the handler did with it (response or raised exception, *)
(* log of remote calls), and one GET /sse stream (generator position,      *)
(* emitted events).                                                        *)
(***************************************************************************)
EXTENDS Integers, Sequences, FiniteSets, TLC

VARIABLES
    pinecone_client,  \* module global: None or the handle of the PineconeClient
    created,          \* number of PineconeClient objects constructed so far
    waiting,          \* POST handlers suspended in await request.json()
    req,              \* the request handled last, or whose body has just been read
    resp,             \* what the handler returned (or that it raised)
    calls,            \* remote calls made while handling req, in order
    initTried,        \* whether handling req ran the PineconeClient constructor
    initFailed,       \* whether some run of the PineconeClient constructor has raised
    ssePc,            \* position of the event_stream generator
    events,           \* events the stream has yielded, in order
    slept,            \* seconds the stream has spent in asyncio.sleep
    clockReads,       \* the time.time() readings taken by the stream, in order
    sseError          \* whether the stream ended with an exception

vars == <<pinecone_client, created, waiting, req, resp, calls, initTried, initFailed,
          ssePc, events, slept, clockReads, sseError>>
httpVars == <<pinecone_client, created, waiting, req, resp, calls, initTried, initFailed>>
sseVars == <<ssePc, events, slept, clockReads, sseError>>

(***************************************************************************)
(* Values                                                                  *)
(***************************************************************************)

\* pinecone_client = None
None == 0

\* JSON-RPC error code of the fall-through return
MethodNotFoundCode == -32601

\* tool names, in the order of the tools/list descriptor array
ToolNames ==
    <<"semantic-search", "process-document", "list-documents",
      "read-document", "pinecone-stats">>

ToolNameSet == {ToolNames[i] : i \in 1..Len(ToolNames)}

\* the descriptor array with two entries in the wrong order
ToolDescriptorsSwapped ==
    << [name |-> "process-document", schemaType |-> "object",
        properties |-> {"content", "title", "metadata"}, required |-> {"content"}],
       [name |-> "semantic-search", schemaType |-> "object",
        properties |-> {"query", "limit"}, required |-> {"query"}],
       [name |-> "list-documents", schemaType |-> "object",
        properties |-> {"limit"}, required |-> {}],
       [name |-> "read-document", schemaType |-> "object",
        properties |-> {"document_id"}, required |-> {"document_id"}],
       [name |-> "pinecone-stats", schemaType |-> "object",
        properties |-> {}, required |-> {}] >>

\* the static descriptor array returned by tools/list
ToolDescriptors ==
    << [name |-> "semantic-search", schemaType |-> "object",
        properties |-> {"query", "limit"}, required |-> {"query"}],
       [name |-> "process-document", schemaType |-> "object",
        properties |-> {"content", "title", "metadata"}, required |-> {"content"}],
       [name |-> "list-documents", schemaType |-> "object",
        properties |-> {"limit"}, required |-> {}],
       [name |-> "read-document", schemaType |-> "object",
        properties |-> {"document_id"}, required |-> {"document_id"}],
       [name |-> "pinecone-stats", schemaType |-> "object",
        properties |-> {}, required |-> {}] >>

(***************************************************************************)
(* Requests.  A POST body is malformed, a JSON value that is no object, or *)
(* an object; of an object the fields the handler reads are kept, each by  *)
(* the kind of JSON value that decides the handler's control flow.         *)
(***************************************************************************)

BodyKinds == {"malformed", "null", "array", "string", "number", "object"}
Methods == {"absent", "initialize", "tools/list", "tools/call", "other"}
Ids == {"absent", "null", "7", "abc"}
ParamsKinds == {"absent", "null", "nonobject", "object"}
NameKinds == ToolNameSet \cup {"absent", "unknown"}
ArgumentsKinds == {"absent", "nonobject", "object"}
\* content: string (hashable, sized, sliceable), number (hashable only),
\* array (sized, sliceable, unhashable), object (sized only)
ContentKinds == {"absent", "string", "number", "array", "object"}
\* metadata: object (a mapping, sized), string (sized, no mapping), number (neither)
MetadataKinds == {"absent", "object", "string", "number"}

Body(kind, method, id, params, name, arguments, content, metadata) ==
    [kind |-> kind, method |-> method, id |-> id, params |-> params, name |-> name,
     arguments |-> arguments, content |-> content, metadata |-> metadata]

NoBody == Body("none", "absent", "absent", "absent", "absent", "absent", "absent", "absent")

PlainBodies ==
    {Body(k, "absent", "absent", "absent", "absent", "absent", "absent", "absent") :
        k \in BodyKinds \ {"object"}}

MethodBodies ==
    {Body("object", m, i, "absent", "absent", "absent", "absent", "absent") :
        m \in Methods \ {"tools/call"}, i \in Ids}

CallBodiesNoParams ==
    {Body("object", "tools/call", i, p, "absent", "absent", "absent", "absent") :
        i \in Ids, p \in ParamsKinds \ {"object"}}

CallBodiesNoArgs ==
    {Body("object", "tools/call", i, "object", n, a, "absent", "absent") :
        i \in Ids, n \in NameKinds, a \in ArgumentsKinds}

CallBodiesDocument ==
    {Body("object", "tools/call", i, "object", "process-document", "object", c, m) :
        i \in Ids, c \in ContentKinds, m \in MetadataKinds}

Bodies ==
    PlainBodies \cup MethodBodies \cup CallBodiesNoParams \cup CallBodiesNoArgs
        \cup CallBodiesDocument

\* body.get("id")
GetId(body) == IF body.id = "absent" THEN "null" ELSE body.id

\* body.get("method")
GetMethod(body) == body.method

\* body.get("params", {}) is an object (params absent gives {})
ParamsIsObject(body) == body.params \in {"absent", "object"}

\* body.get("params", {}).get("name")
GetToolName(body) == IF body.params = "object" THEN body.name ELSE "absent"

\* body.get("params", {}).get("arguments", {})
GetArguments(body) == IF body.params = "object" THEN body.arguments ELSE "absent"

\* arguments.get("content", "")
GetContent(body) ==
    IF GetArguments(body) = "object" /\ body.content # "absent"
    THEN body.content ELSE "string"

\* arguments.get("metadata", {})
GetMetadata(body) ==
    IF GetArguments(body) = "object" /\ body.metadata # "absent"
    THEN body.metadata ELSE "object"

Hashable(content) == content \in {"string", "number"}
Sized(value) == value \in {"string", "array", "object"}
Sliceable(content) == content \in {"string", "array"}
IsMapping(metadata) == metadata = "object"

(***************************************************************************)
(* Responses                                                               *)
(***************************************************************************)

Blank ==
    [status |-> "none", jsonrpc |-> FALSE, id |-> "absent", result |-> "none",
     content |-> <<>>, tools |-> <<>>, error |-> "none", code |-> 0,
     message |-> "", connected |-> FALSE]

\* the handler raised: the framework answers 500
Raised(exc) == [Blank EXCEPT !.status = "raised", !.message = exc]

\* {"error": "Invalid JSON"}
InvalidJson == [Blank EXCEPT !.status = "returned", !.error = "string",
                             !.message = "Invalid JSON"]

\* {"jsonrpc": "2.0", "id": id, "result": {"content": [{"type": "text", "text": text}]}}
TextResult(id, text) ==
    [Blank EXCEPT !.status = "returned", !.jsonrpc = TRUE, !.id = id,
                  !.result = "content",
                  !.content = << [type |-> "text", text |-> text] >>]

\* {"jsonrpc": "2.0", "id": id, "result": {"tools": [...]}}
ToolsListResult(id) ==
    [Blank EXCEPT !.status = "returned", !.jsonrpc = TRUE, !.id = id,
                  !.result = "tools", !.tools = ToolDescriptors]

\* {"jsonrpc": "2.0", "id": id, "result": {"protocolVersion": ..., ...}}
InitializeResult(id) ==
    [Blank EXCEPT !.status = "returned", !.jsonrpc = TRUE, !.id = id,
                  !.result = "capabilities"]

\* {"jsonrpc": "2.0", "id": id, "error": {"code": -32601, "message": ...}}
MethodNotFound(id) ==
    [Blank EXCEPT !.status = "returned", !.jsonrpc = TRUE, !.id = id,
                  !.error = "object", !.code = MethodNotFoundCode,
                  !.message = "Method not found"]

\* {"status": "healthy", ..., "pinecone_connected": pc_client is not None}
HealthResult(client) ==
    [Blank EXCEPT !.status = "returned", !.result = "health",
                  !.connected = (client # None)]

(***************************************************************************)
(* The remote client.  What each remote operation does is an input: it     *)
(* raises, or returns a value of a shape the reply formatting accepts      *)
(* ("ok"), an empty/falsy value ("empty"), or a value the formatting       *)
(* raises on ("malformed", and for embed "unsized": values without len).   *)
(***************************************************************************)

InitOutcomes == {"ok", "raise"}
SearchOutcomes == {"ok", "empty", "malformed", "raise"}
EmbedOutcomes == {"ok", "malformed", "unsized", "raise"}
UpsertOutcomes == {"ok", "raise"}
SyncOutcomes == {"ok", "raise"}
ListOutcomes == {"ok", "empty", "malformed", "raise"}
ReadOutcomes == {"ok", "empty", "malformed", "raise"}
StatsOutcomes == {"ok", "malformed", "raise"}

Env(init, search, embed, upsert, sync, list, read, stats) ==
    [init |-> init, search |-> search, embed |-> embed, upsert |-> upsert,
     sync |-> sync, list |-> list, read |-> read, stats |-> stats]

\* the outcomes that matter to a request for tool `name`; the others are fixed
EnvsFor(name) ==
    {Env(i, s, e, u, y, l, r, t) :
        i \in InitOutcomes,
        s \in IF name = "semantic-search" THEN SearchOutcomes ELSE {"ok"},
        e \in IF name = "process-document" THEN EmbedOutcomes ELSE {"ok"},
        u \in IF name = "process-document" THEN UpsertOutcomes ELSE {"ok"},
        y \in IF name = "process-document" THEN SyncOutcomes ELSE {"ok"},
        l \in IF name = "list-documents" THEN ListOutcomes ELSE {"ok"},
        r \in IF name = "read-document" THEN ReadOutcomes ELSE {"ok"},
        t \in IF name = "pinecone-stats" THEN StatsOutcomes ELSE {"ok"}}

\* one remote call and whether it returned ("ok") or raised ("raise")
Call(op, out) == [op |-> op, out |-> out]
Returned(out) == IF out = "raise" THEN "raise" ELSE "ok"

\* how a block of the handler ends: it returns a text, raises, or falls through
Ret(text, cs) == [end |-> "return", text |-> text, calls |-> cs]
Exc(cs) == [end |-> "raise", text |-> "", calls |-> cs]
Fall(cs) == [end |-> "fall", text |-> "", calls |-> cs]

\* get_pinecone_client without the "is None" test: a client per call
get_pinecone_client_always(client, n, init) ==
    IF init = "ok"
    THEN [client |-> n + 1, created |-> n + 1, tried |-> TRUE]
    ELSE [client |-> None, created |-> n, tried |-> TRUE]

\* get_pinecone_client(): construct the client only when the global is None
get_pinecone_client(client, n, init) ==
    IF client = None
    THEN IF init = "ok"
         THEN [client |-> n + 1, created |-> n + 1, tried |-> TRUE]
         ELSE [client |-> None, created |-> n, tried |-> TRUE]
    ELSE [client |-> client, created |-> n, tried |-> FALSE]

(***************************************************************************)
(* The five tool branches of tools/call                                    *)
(***************************************************************************)

\* semantic-search that calls search_records again after it raised
semantic_search_retry(body, env) ==
    IF GetArguments(body) = "nonobject" THEN [end |-> "raise", text |-> "", calls |-> <<>>]
    ELSE IF env.search = "raise"
         THEN [end |-> "return", text |-> "search_error",
               calls |-> << [op |-> "search_records", out |-> "raise"],
                            [op |-> "search_records", out |-> "raise"] >>]
         ELSE [end |-> "return",
               text |-> IF env.search = "ok" THEN "search_found"
                        ELSE IF env.search = "empty" THEN "search_none"
                        ELSE "search_error",
               calls |-> << [op |-> "search_records", out |-> "ok"] >>]

\* tool_name == "semantic-search"
semantic_search(body, env) ==
    IF GetArguments(body) = "nonobject" THEN Exc(<<>>)
    ELSE LET cs == << Call("search_records", Returned(env.search)) >> IN
         CASE env.search = "ok" -> Ret("search_found", cs)
           [] env.search = "empty" -> Ret("search_none", cs)
           [] OTHER -> Ret("search_error", cs)

\* Method 1: inference.embed, build the vector, index.upsert, format the reply
EmbedAndUpsert(content, metadata, env) ==
    LET e == << Call("embed", Returned(env.embed)) >>
        u == << Call("upsert", Returned(env.upsert)) >>
    IN  IF env.embed \in {"raise", "malformed"} THEN [ok |-> FALSE, calls |-> e]
        ELSE IF ~Hashable(content) THEN [ok |-> FALSE, calls |-> e]
        ELSE IF ~IsMapping(metadata) THEN [ok |-> FALSE, calls |-> e]
        ELSE IF env.upsert = "raise" THEN [ok |-> FALSE, calls |-> e \o u]
        ELSE IF ~Sized(content) \/ env.embed = "unsized"
             THEN [ok |-> FALSE, calls |-> e \o u]
        ELSE [ok |-> TRUE, calls |-> e \o u]

\* Fallback: process_document_sync, format the reply
McpFallback(content, metadata, env) ==
    LET y == << Call("process_document_sync", Returned(env.sync)) >>
    IN  IF env.sync = "raise" THEN [ok |-> FALSE, calls |-> y]
        ELSE IF ~Sliceable(content) \/ ~Sized(metadata) THEN [ok |-> FALSE, calls |-> y]
        ELSE [ok |-> TRUE, calls |-> y]

\* the handlers of mcp_error and process_error format the failure text
BothFailed(content, cs) ==
    IF Sliceable(content) THEN Ret("both_failed", cs)
    ELSE IF Sized(content) THEN Ret("process_failed", cs)
    ELSE Exc(cs)

\* tool_name == "process-document"
process_document(body, env) ==
    IF GetArguments(body) = "nonobject" THEN Exc(<<>>)
    ELSE LET content == GetContent(body)
             metadata == GetMetadata(body)
             a == EmbedAndUpsert(content, metadata, env)
             b == McpFallback(content, metadata, env)
         IN  IF a.ok THEN Ret("stored", a.calls)
             ELSE IF b.ok THEN Ret("processed_mcp", a.calls \o b.calls)
             ELSE BothFailed(content, a.calls \o b.calls)

\* tool_name == "list-documents"
list_documents(body, env) ==
    IF GetArguments(body) = "nonobject" THEN Exc(<<>>)
    ELSE LET cs == << Call("list_documents", Returned(env.list)) >> IN
         CASE env.list = "ok" -> Ret("list_docs", cs)
           [] env.list = "empty" -> Ret("list_none", cs)
           [] OTHER -> Ret("list_error", cs)

\* tool_name == "read-document"
read_document(body, env) ==
    IF GetArguments(body) = "nonobject" THEN Exc(<<>>)
    ELSE LET cs == << Call("read_document", Returned(env.read)) >> IN
         CASE env.read = "ok" -> Ret("read_doc", cs)
           [] env.read = "empty" -> Ret("read_notfound", cs)
           [] OTHER -> Ret("read_error", cs)

\* tool_name == "pinecone-stats"
pinecone_stats(body, env) ==
    LET cs == << Call("get_stats", Returned(env.stats)) >> IN
    IF env.stats = "ok" THEN Ret("stats", cs) ELSE Ret("stats_error", cs)

\* the if/elif chain on tool_name inside the outer try
ToolBranch(body, env) ==
    LET tool_name == GetToolName(body) IN
    CASE tool_name = "semantic-search" -> semantic_search(body, env)
      [] tool_name = "process-document" -> process_document(body, env)
      [] tool_name = "list-documents" -> list_documents(body, env)
      [] tool_name = "read-document" -> read_document(body, env)
      [] tool_name = "pinecone-stats" -> pinecone_stats(body, env)
      [] OTHER -> Fall(<<>>)

\* the chain without the outer except: a raise leaves the handler
ToolsCallTryUncaught(body, env) == ToolBranch(body, env)

\* the outer try ... except Exception as e around the chain
ToolsCallTry(body, env) ==
    LET r == ToolBranch(body, env) IN
    IF r.end = "raise" THEN Ret("unexpected", r.calls) ELSE r

(***************************************************************************)
(* POST /                                                                  *)
(***************************************************************************)

\* what handling one request did: the response and the remote calls made, and
\* the client global, the construction count and whether the constructor ran
Outcome(r, cs, g) ==
    [resp |-> r, calls |-> cs, client |-> g.client, created |-> g.created,
     tried |-> g.tried]

\* the client global is not consulted
Untouched(client, n) == [client |-> client, created |-> n, tried |-> FALSE]

\* the parse without its try/except: the decode error leaves the handler
ParseFailureUncaught(client, n) ==
    [resp |-> Raised("JSONDecodeError"), calls |-> <<>>, client |-> client,
     created |-> n, tried |-> FALSE]

\* except: return {"error": "Invalid JSON"}
ParseFailure(client, n) == Outcome(InvalidJson, <<>>, Untouched(client, n))

\* body.get(...) on a JSON value that is no object raises AttributeError
NotAnObject(client, n) == Outcome(Raised("AttributeError"), <<>>, Untouched(client, n))

\* method == "tools/call"
tools_call(body, client, n, env) ==
    IF ~ParamsIsObject(body)
    THEN Outcome(Raised("AttributeError"), <<>>, Untouched(client, n))
    ELSE LET g == get_pinecone_client(client, n, env.init) IN
         IF g.client = None
         THEN Outcome(TextResult(GetId(body), "unavailable"), <<>>, g)
         ELSE LET r == ToolsCallTry(body, env) IN
              CASE r.end = "return" -> Outcome(TextResult(GetId(body), r.text), r.calls, g)
                [] r.end = "fall" ->
                     Outcome(TextResult(GetId(body), "not_implemented"), r.calls, g)
                [] OTHER -> Outcome(Raised("Exception"), r.calls, g)

\* the dispatch on body.get("method")
Dispatch(body, client, n, env) ==
    CASE GetMethod(body) = "tools/list" ->
            Outcome(ToolsListResult(GetId(body)), <<>>, Untouched(client, n))
      [] GetMethod(body) = "tools/call" -> tools_call(body, client, n, env)
      [] GetMethod(body) = "initialize" ->
            Outcome(InitializeResult(GetId(body)), <<>>, Untouched(client, n))
      [] OTHER -> Outcome(MethodNotFound(GetId(body)), <<>>, Untouched(client, n))

\* mcp_handler(request), as a function of the body, the global and the remote
HandlePost(body, client, n, env) ==
    IF body.kind = "malformed" THEN ParseFailure(client, n)
    ELSE IF body.kind # "object" THEN NotAnObject(client, n)
    ELSE Dispatch(body, client, n, env)

(***************************************************************************)
(* GET /sse                                                                *)
(***************************************************************************)

\* most heartbeats of the stream that are explored
MaxHeartbeats == 3
\* largest wall-clock reading that is explored
MaxClock == 11
\* time.time() is the wall clock: a reading may be lower than an earlier one
ClockValues == 8..MaxClock

\* await asyncio.sleep(30)
HeartbeatInterval == 30

Digit(d) == <<"0", "1", "2", "3", "4", "5", "6", "7", "8", "9">>[d + 1]
DigitValue(c) == CHOOSE d \in 0..9 : Digit(d) = c

RECURSIVE Digits(_)
\* the decimal digits of a natural number
Digits(n) == IF n < 10 THEN << Digit(n) >>
             ELSE Append(Digits(n \div 10), Digit(n % 10))

\* str(time.time()): the reading is a float, a whole second prints as "10.0"
StrOfTime(t) == Digits(t) \o <<".", "0">>

RECURSIVE ParseDigits(_)
ParseDigits(s) == IF Len(s) = 0 THEN 0
                  ELSE 10 * ParseDigits(SubSeq(s, 1, Len(s) - 1)) + DigitValue(s[Len(s)])

\* the number a timestamp string stands for
ParseTime(s) == ParseDigits(SubSeq(s, 1, Len(s) - 2))

ConnectionEvent == [type |-> "connection", payload |-> "connected", timestamp |-> <<>>]
InitMessage == [type |-> "absent", payload |-> "capabilities", timestamp |-> <<>>]
Heartbeat(t) == [type |-> "heartbeat", payload |-> "", timestamp |-> StrOfTime(t)]

(***************************************************************************)
(* The state machine                                                       *)
(***************************************************************************)

Init ==
    /\ pinecone_client = None
    /\ created = 0
    /\ waiting = 0
    /\ req = [route |-> "none", body |-> NoBody]
    /\ resp = Blank
    /\ calls = <<>>
    /\ initTried = FALSE
    /\ initFailed = FALSE
    /\ ssePc = "idle"
    /\ events = <<>>
    /\ slept = 0
    /\ clockReads = <<>>
    /\ sseError = FALSE

\* most POST handlers that wait for their body at once
MaxWaiting == 2

\* no handler is between the receipt of its body and its reply: from line 87
\* on mcp_handler has no await, so nothing else runs in that stretch
Idle == req.route = "none" \/ resp.status # "none"

\* a POST / request arrives: mcp_handler starts and is suspended in
\* await request.json(); the event loop goes on to serve other requests
post_request ==
    /\ Idle
    /\ waiting < MaxWaiting
    /\ waiting' = waiting + 1
    /\ UNCHANGED <<pinecone_client, created, req, resp, calls, initTried,
                   initFailed>>
    /\ UNCHANGED sseVars

\* the body of a waiting POST has arrived: await request.json() completes
\* and its handler resumes
request_json ==
    /\ Idle
    /\ waiting > 0
    /\ waiting' = waiting - 1
    /\ \E body \in Bodies : req' = [route |-> "post", body |-> body]
    /\ resp' = Blank
    /\ calls' = <<>>
    /\ initTried' = FALSE
    /\ UNCHANGED <<pinecone_client, created, initFailed>>
    /\ UNCHANGED sseVars

\* POST /: mcp_handler runs from the parse of the body to its return or raise
mcp_handler ==
    /\ ~Idle
    /\ \E env \in EnvsFor(GetToolName(req.body)) :
        LET o == HandlePost(req.body, pinecone_client, created, env) IN
        /\ resp' = o.resp
        /\ calls' = o.calls
        /\ pinecone_client' = o.client
        /\ created' = o.created
        /\ initTried' = o.tried
        /\ initFailed' = (initFailed \/ (o.tried /\ o.client = None))
    /\ UNCHANGED <<req, waiting>>
    /\ UNCHANGED sseVars

\* GET /health
health ==
    /\ Idle
    /\ \E init \in InitOutcomes :
        LET g == get_pinecone_client(pinecone_client, created, init) IN
        /\ req' = [route |-> "health", body |-> NoBody]
        /\ resp' = HealthResult(g.client)
        /\ calls' = <<>>
        /\ pinecone_client' = g.client
        /\ created' = g.created
        /\ initTried' = g.tried
        /\ initFailed' = (initFailed \/ (g.tried /\ g.client = None))
    /\ UNCHANGED waiting
    /\ UNCHANGED sseVars

\* the reply of a route that returns a literal
StaticResult(route) == [Blank EXCEPT !.status = "returned", !.result = route]

\* GET /
mcp_root ==
    /\ Idle
    /\ req' = [route |-> "root", body |-> NoBody]
    /\ resp' = StaticResult("root")
    /\ calls' = <<>>
    /\ initTried' = FALSE
    /\ UNCHANGED <<pinecone_client, created, initFailed, waiting>>
    /\ UNCHANGED sseVars

\* GET /tools
list_tools ==
    /\ Idle
    /\ req' = [route |-> "tools", body |-> NoBody]
    /\ resp' = StaticResult("tools")
    /\ calls' = <<>>
    /\ initTried' = FALSE
    /\ UNCHANGED <<pinecone_client, created, initFailed, waiting>>
    /\ UNCHANGED sseVars

\* GET /sse: the StreamingResponse holds a generator that has not started
sse_endpoint ==
    /\ ssePc = "idle"
    /\ ssePc' = "start"
    /\ UNCHANGED <<events, slept, clockReads, sseError>>
    /\ UNCHANGED httpVars

\* event_stream runs to its first yield
StreamConnection ==
    /\ ssePc = "start"
    /\ ssePc' = "yield_connection"
    /\ events' = Append(events, ConnectionEvent)
    /\ UNCHANGED <<slept, clockReads, sseError>>
    /\ UNCHANGED httpVars

\* resumed, it yields init_message
StreamInit ==
    /\ ssePc = "yield_connection"
    /\ ssePc' = "yield_init"
    /\ events' = Append(events, InitMessage)
    /\ UNCHANGED <<slept, clockReads, sseError>>
    /\ UNCHANGED httpVars

\* resumed, it enters the loop and awaits asyncio.sleep(30)
StreamSleep ==
    /\ ssePc \in {"yield_init", "yield_heartbeat"}
    /\ Len(clockReads) < MaxHeartbeats
    /\ ssePc' = "sleep"
    /\ UNCHANGED <<events, slept, clockReads, sseError>>
    /\ UNCHANGED httpVars

\* a heartbeat yielded without the sleep before it
HeartbeatNoSleep(t) ==
    /\ ssePc' = "yield_heartbeat"
    /\ slept' = slept
    /\ clockReads' = Append(clockReads, t)
    /\ events' = Append(events, [type |-> "heartbeat", payload |-> "",
                                  timestamp |-> StrOfTime(t)])
    /\ UNCHANGED sseError

\* the sleep completes: read the wall clock and yield the heartbeat
HeartbeatStep(t) ==
    /\ ssePc' = "yield_heartbeat"
    /\ slept' = slept + HeartbeatInterval
    /\ clockReads' = Append(clockReads, t)
    /\ events' = Append(events, Heartbeat(t))
    /\ UNCHANGED sseError

StreamHeartbeat ==
    /\ ssePc = "sleep"
    /\ \E t \in ClockValues : HeartbeatStep(t)
    /\ UNCHANGED httpVars

\* except asyncio.CancelledError: return
CancelledInSleep ==
    /\ ssePc' = "done"
    /\ UNCHANGED <<events, slept, clockReads, sseError>>

\* the caller disconnects while the generator sleeps
StreamCancel ==
    /\ ssePc = "sleep"
    /\ CancelledInSleep
    /\ UNCHANGED httpVars

\* the caller disconnects while the generator is suspended at a yield (or has
\* not started): the generator is closed, GeneratorExit is no CancelledError
\* and unwinds it
StreamClose ==
    /\ ssePc \in {"start", "yield_connection", "yield_init", "yield_heartbeat"}
    /\ ssePc' = "done"
    /\ UNCHANGED <<events, slept, clockReads, sseError>>
    /\ UNCHANGED httpVars

\* the requests of the facade
Next == post_request \/ request_json \/ mcp_handler \/ health \/ mcp_root \/ list_tools

Spec == Init /\ [][Next]_vars

\* one event stream; it shares no state with the requests
NextSSE ==
    \/ sse_endpoint
    \/ StreamConnection
    \/ StreamInit
    \/ StreamSleep
    \/ StreamHeartbeat
    \/ StreamCancel
    \/ StreamClose

SpecSSE == Init /\ [][NextSSE]_vars

(***************************************************************************)
(* Properties                                                              *)
(***************************************************************************)

\* a POST / request has been handled: resp is its reply, or says it raised
Handled == req.route = "post" /\ resp.status # "none"

\* the reply is {"jsonrpc", "id", "result": {"content": [one text item]}}
TextShaped(r) ==
    /\ r.status = "returned"
    /\ r.result = "content"
    /\ r.error = "none"
    /\ Len(r.content) = 1
    /\ r.content[1].type = "text"
    /\ r.content[1].text # ""

\* the id the caller sent, null when it sent none
SentId == IF req.body.id = "absent" THEN "null" ELSE req.body.id

\* the text of a reply that reports a failure
FailureTexts ==
    {"search_error", "both_failed", "process_failed", "list_error", "read_error",
     "stats_error", "unexpected"}

\* C1: while the client is unavailable, every tools/call request, whatever its
\* params, is answered by a normal reply whose result.content is the single
\* text item with the unavailability message; none raises, none is an error.
C1_UnavailableIsText ==
    (Handled /\ req.body.kind = "object" /\ req.body.method = "tools/call"
        /\ pinecone_client = None)
    => (TextShaped(resp) /\ resp.content[1].text = "unavailable")

\* C2: a request whose body parses and whose method is none of initialize,
\* tools/list, tools/call (or is missing) is answered by a JSON-RPC error of
\* code -32601, without a result and without consulting the client.
C2_UnknownMethodIs32601 ==
    (Handled /\ req.body.kind # "malformed"
        /\ (req.body.kind # "object"
            \/ req.body.method \notin {"initialize", "tools/list", "tools/call"}))
    => /\ resp.status = "returned"
       /\ resp.error = "object"
       /\ resp.code = -32601
       /\ resp.result = "none"
       /\ ~initTried
       /\ calls = <<>>

\* the reply to a malformed body
C3_MalformedReply ==
    (Handled /\ req.body.kind = "malformed")
    => /\ resp.status = "returned"
       /\ resp.error # "none"
       /\ resp.result = "none"
       /\ ~resp.jsonrpc
       /\ calls = <<>>
       /\ ~initTried

\* handling a malformed body leaves the client handle alone
C3_MalformedStep ==
    (~Idle /\ req.body.kind = "malformed")
    => (pinecone_client' = pinecone_client /\ created' = created)

\* C3: a malformed JSON body is answered by an error object as a normal reply,
\* never by an exception; nothing is dispatched, no remote call is made and
\* the client handle stays as it was.
C3_MalformedJsonIsError == []C3_MalformedReply /\ [][C3_MalformedStep]_vars

C3_Witness ==
    /\ Handled
    /\ req.body.kind = "malformed"
    /\ resp.status = "returned"
    /\ resp.error = "string"
    /\ pinecone_client # None

\* C4: every reply of POST / carries either a result or an error object with
\* a numeric code and a message, never both and never neither; malformed JSON
\* and an unknown method both give an error object of that shape.
C4_ResultXorErrorObject ==
    (Handled /\ resp.status = "returned")
    => /\ (resp.result # "none") # (resp.error # "none")
       /\ resp.error # "none"
            => (resp.error = "object" /\ resp.code # 0 /\ resp.message # "")
       /\ req.body.kind = "malformed" => resp.error = "object"

\* C5: with the client available, a failure inside a tools/call branch (a
\* remote operation raising, or the formatting of its reply raising) is
\* swallowed: the reply is success-shaped with one descriptive text item.
C5_ToolFailureSwallowed ==
    (Handled /\ req.body.kind = "object" /\ req.body.method = "tools/call"
        /\ ParamsIsObject(req.body) /\ pinecone_client # None)
    => /\ TextShaped(resp)
       /\ resp.id = SentId
       /\ (\E i \in 1..Len(calls) : calls[i].out = "raise")
            => resp.content[1].text \in FailureTexts \cup {"processed_mcp"}
       /\ (Len(calls) > 0 /\ calls[Len(calls)].out = "raise")
            => resp.content[1].text \in FailureTexts

\* every handler of the process-document branch raised in turn, and the
\* outermost one answered
C5_Witness ==
    /\ Handled
    /\ req.body.name = "process-document"
    /\ pinecone_client # None
    /\ Len(calls) = 3
    /\ calls[3].out = "raise"
    /\ TextShaped(resp)
    /\ resp.content[1].text = "unexpected"

\* at most one client is ever constructed
C6_CreatedOnce == created <= 1 /\ pinecone_client \in {None, 1}

\* a handle that exists survives every step, and no request handled while it
\* exists runs the constructor (initTried stays only as the record of the
\* request handled last)
C6_HandleKept ==
    pinecone_client # None
    => /\ pinecone_client' = pinecone_client
       /\ created' = created
       /\ initTried' => UNCHANGED <<req, resp, initTried>>

\* C6: over any sequence of requests the client handle is created at most
\* once: once it is not None it is never replaced or reset, and every later
\* request gets that same handle.
C6_HandleCreatedAtMostOnce == []C6_CreatedOnce /\ [][C6_HandleKept]_vars

\* a later GET /health found the handle an earlier request had created
C6_Witness ==
    /\ req.route = "health"
    /\ resp.connected
    /\ ~initTried
    /\ pinecone_client = 1
    /\ created = 1

\* C7 (as stated): within one tools/call request, once a call to the remote
\* client raises, no further call to it is made.
C7_NoCallAfterRaise ==
    Handled => \A i \in 1..Len(calls) : calls[i].out = "raise" => i = Len(calls)

\* the remote operations a request called, in order
CalledOps == [i \in 1..Len(calls) |-> calls[i].op]

\* C7 (amended): no remote operation is called twice in a request, and a raise
\* ends the remote calls of the request, except in process-document, where a
\* raise of embed or upsert is followed by the one call of
\* process_document_sync; a raise of the last call made, and a failed client
\* construction, are reported in the reply of the same request.
C7_NoRepeatedCall ==
    Handled =>
       /\ \A i, j \in 1..Len(calls) : calls[i].op = calls[j].op => i = j
       /\ \A i \in 1..Len(calls) :
            (calls[i].out = "raise" /\ i < Len(calls))
            => /\ req.body.name = "process-document"
               /\ calls[i].op \in {"embed", "upsert"}
               /\ i + 1 = Len(calls)
               /\ calls[i + 1].op = "process_document_sync"
       /\ \A i \in 1..Len(calls) :
            (calls[i].out = "raise" /\ calls[i].op \in {"embed", "upsert"})
            => i < Len(calls)
       /\ (Len(calls) > 0 /\ calls[Len(calls)].out = "raise")
            => (TextShaped(resp) /\ resp.content[1].text \in FailureTexts)
       /\ (initTried /\ pinecone_client = None)
            => (calls = <<>> /\ TextShaped(resp)
                /\ resp.content[1].text = "unavailable")

\* upsert raised, the fallback was called once, raised too, and that was all
C7_Witness ==
    /\ Handled
    /\ CalledOps = <<"embed", "upsert", "process_document_sync">>
    /\ calls[2].out = "raise"
    /\ calls[3].out = "raise"
    /\ resp.content[1].text = "both_failed"

\* the heartbeat events of the stream, in order
HeartbeatStamps ==
    [k \in 1..(Len(events) - 2) |-> ParseTime(events[k + 2].timestamp)]

\* first the connection event, second the capability descriptor, then
\* heartbeats only, one for each completed 30-second sleep
C8_EventOrder ==
    /\ Len(events) >= 1 => events[1] = ConnectionEvent
    /\ Len(events) >= 2 => events[2] = InitMessage
    /\ \A i \in 3..Len(events) : events[i].type = "heartbeat"
    /\ ssePc \in {"idle", "start"} => events = <<>>
    /\ ssePc \in {"yield_init", "sleep", "yield_heartbeat"} => Len(events) >= 2
    /\ Len(events) > 2 => slept = HeartbeatInterval * (Len(events) - 2)
    /\ Len(events) <= 2 => slept = 0
    /\ ~sseError

\* C8 (as stated): connection, descriptor, then only heartbeats, one after
\* each 30-second sleep, with non-decreasing timestamps, and the stream ends
\* without error.
C8_TimestampsNonDecreasing ==
    /\ C8_EventOrder
    /\ \A i, j \in 1..(Len(events) - 2) :
            i <= j => HeartbeatStamps[i] <= HeartbeatStamps[j]

\* each heartbeat carries the wall-clock reading taken when its sleep ended
C8_StampsAreReadings ==
    /\ Len(clockReads) = IF Len(events) > 2 THEN Len(events) - 2 ELSE 0
    /\ \A k \in 1..Len(clockReads) : HeartbeatStamps[k] = clockReads[k]

\* the stream goes on until the caller disconnects: short of the explored
\* bound, a started stream that has not been cancelled can take its next step
C8_GoesOn ==
    (ssePc \notin {"idle", "done"} /\ Len(clockReads) < MaxHeartbeats)
    => ENABLED (StreamConnection \/ StreamInit \/ StreamSleep \/ StreamHeartbeat)

\* a step that ends the stream is the caller's disconnect and emits nothing;
\* an ended stream stays ended and emits nothing; events are only appended
C8_EndStep ==
    /\ (ssePc # "done" /\ ssePc' = "done")
         => ((StreamCancel \/ StreamClose) /\ events' = events /\ ~sseError')
    /\ ssePc = "done" => (ssePc' = "done" /\ events' = events)
    /\ Len(events') >= Len(events)
    /\ SubSeq(events', 1, Len(events)) = events

\* C8 (amended): connection, descriptor, then only heartbeats, one after each
\* 30-second sleep, each stamped with the wall-clock reading taken when its
\* sleep ended (so the timestamps are non-decreasing exactly when those
\* readings are); the stream goes on until the caller disconnects, and a
\* cancellation ends it without error and with no event after it.
C8_StreamSequence ==
    [](C8_EventOrder /\ C8_StampsAreReadings /\ C8_GoesOn) /\ [][C8_EndStep]_vars

\* the caller disconnected after the second heartbeat, in the third sleep
\* or at the yield before it; the readings went up
C8_Witness ==
    /\ ssePc = "done"
    /\ Len(events) = 4
    /\ HeartbeatStamps = <<9, 10>>
    /\ slept = 2 * HeartbeatInterval
    /\ ~sseError

\* C9: every POST / request whose body parses gets a reply whose id is the
\* request's id (null when it has none): initialize, tools/list, every
\* outcome of tools/call and the unknown-method error.
C9_IdEchoed ==
    (Handled /\ req.body.kind # "malformed")
    => (resp.status = "returned" /\ resp.jsonrpc /\ resp.id = SentId)

\* the reply to tools/list
C10_ToolsListReply ==
    (Handled /\ req.body.kind = "object" /\ req.body.method = "tools/list")
    => /\ resp.status = "returned"
       /\ resp.result = "tools"
       /\ resp.error = "none"
       /\ [i \in 1..Len(resp.tools) |-> resp.tools[i].name]
            = <<"semantic-search", "process-document", "list-documents",
                "read-document", "pinecone-stats">>
       /\ \A i \in 1..Len(resp.tools) :
            /\ resp.tools[i].schemaType = "object"
            /\ resp.tools[i].required \subseteq resp.tools[i].properties
       /\ ~initTried
       /\ calls = <<>>

\* handling tools/list leaves the client handle alone
C10_ToolsListStep ==
    (~Idle /\ req.body.kind = "object" /\ req.body.method = "tools/list")
    => (pinecone_client' = pinecone_client /\ created' = created)

\* C10: every tools/list request, whatever the handle and the requests
\* before it, returns the five descriptors semantic-search, process-document,
\* list-documents, read-document, pinecone-stats in that order, each with an
\* input schema of type object, and does not initialise the client.
C10_ToolsListStatic == []C10_ToolsListReply /\ [][C10_ToolsListStep]_vars

\* tools/list answered while the client is still not initialised, after a
\* request has been made
C10_Witness ==
    /\ Handled
    /\ req.body.method = "tools/list"
    /\ resp.result = "tools"
    /\ Len(resp.tools) = 5
    /\ pinecone_client = None

\* a process-document call that reached its branch with the client available
DocumentCall ==
    /\ Handled
    /\ req.body.kind = "object"
    /\ req.body.method = "tools/call"
    /\ req.body.params = "object"
    /\ req.body.name = "process-document"
    /\ req.body.arguments # "nonobject"
    /\ pinecone_client # None

\* the position of a remote operation in the order embed, upsert, fallback
StepRank(op) ==
    CASE op = "embed" -> 1
      [] op = "upsert" -> 2
      [] op = "process_document_sync" -> 3
      [] OTHER -> 0

\* method A went through: index.upsert was called and returned
UpsertReturned == \E i \in 1..Len(calls) : calls[i] = Call("upsert", "ok")

\* method B, process_document_sync, was called
FallbackCalled == \E i \in 1..Len(calls) : calls[i].op = "process_document_sync"

\* process_document_sync was called and raised
FallbackRaised ==
    \E i \in 1..Len(calls) : calls[i] = Call("process_document_sync", "raise")

\* C11: in a process-document call with the client available the steps run
\* in the order embed, upsert, fallback; process_document_sync (method B) is
\* called only after the embed-and-upsert path (method A) has raised, that
\* is, has not got as far as an upsert that returned; when method A succeeds
\* exactly one upsert was made and method B is never called; and the "both
\* embedding methods failed" text is returned only when A and then B have
\* both raised.
C11_EmbedUpsertThenFallback ==
    DocumentCall =>
       /\ Len(calls) >= 1 /\ calls[1].op = "embed"
       /\ \A i \in 1..Len(calls) : StepRank(calls[i].op) > 0
       /\ \A i, j \in 1..Len(calls) :
            i < j => StepRank(calls[i].op) < StepRank(calls[j].op)
       /\ FallbackCalled => ~UpsertReturned
       /\ UpsertReturned
            => /\ Cardinality({i \in 1..Len(calls) : calls[i].op = "upsert"}) = 1
               /\ ~FallbackCalled
       /\ (TextShaped(resp) /\ resp.content[1].text = "both_failed")
            => (~UpsertReturned /\ FallbackRaised)

\* a tools/call or GET /health request has been handled
ClientRequestDone ==
    \/ req.route = "health"
    \/ (Handled /\ req.body.kind = "object" /\ req.body.method = "tools/call")

\* C12: a failed client initialisation leaves the handle None, and every
\* later tools/call or GET /health request makes a new initialisation attempt
\* (while the handle is None); pinecone_connected is true exactly when the
\* handle is not None after the request's attempt, and once it has been true
\* it is never false again.
C12_RetryUntilConnected ==
    /\ (initFailed /\ created = 0) => pinecone_client = None
    /\ (ClientRequestDone /\ initFailed /\ pinecone_client = None) => initTried
    /\ req.route = "health" => (resp.connected <=> pinecone_client # None)
    /\ created >= 1 => pinecone_client # None

\* a POST waits for its body and nothing has been handled yet: GET /health
\* and the receipt of a body can each be the next step
InterleavingOpen ==
    (waiting > 0 /\ Idle) => (ENABLED health /\ ENABLED request_json)

====
